---- MODULE Spec2Model ----
(***************************************************************************)
(* One /api/stream conversation of the AG-UI agent server:                 *)
(*   - the agent loop compiled by create_agent (agent.py): the "agent"     *)
(*     node calling the model, the tools_condition edge, the "tools" node  *)
(*     and the edge back to "agent";                                       *)
(*   - stream_agent (agent.py), the stream of internal execution events;   *)
(*   - stream_chat.event_generator (server.py), which translates the       *)
(*     internal events into frames pushed to the client.                   *)
(* Texts are sequences of tokens, so that concatenation is \o.             *)
(* Further specifications over the same variables: SearchSpec (web_search  *)
(* alone), EquivSpec (server.py and server_sdk.py fed the same events),    *)
(* RoundsSpec (the graph run step by step under its recursion limit) and   *)
(* ConcSpec (two requests served side by side).                            *)
(***************************************************************************)
EXTENDS Naturals, Sequences, FiniteSets

VARIABLES
    pc,                 \* position of event_generator
    connected,          \* the client is still connected
    frames,             \* frames yielded by event_generator, in order
    current_tool,       \* event_generator's local current_tool
    message_content,    \* event_generator's local message_content
    events,             \* internal events produced and not yet consumed
    emitted,            \* history: every internal event produced, in order
    handled,            \* history: number of internal events consumed
    loopState,          \* state of the agent loop
    messages,           \* State["messages"], the conversation
    llm,                \* the model invocation in flight
    calls,              \* status of the tool calls of the current tools step
    finishOrder,        \* history: ids of the calls of this step, as they end
    modelInvocations,   \* history: number of model invocations begun
    toolInvocations,    \* history: number of tool invocations begun
    fault,              \* message of the fault raised in the loop
    nextId,             \* next fresh tool call id
    framesAtDisconnect, \* history: Len(frames) when the client disconnected
    stepsAfterDisconnect, \* history: loop steps executed after the disconnect
    tavily_client,      \* tools.py's tavily_client: None without credential
    search,             \* one direct invocation of the web_search adapter
    mode,               \* the endpoint serving the request
    response,           \* the response returned by /api/chat
    providerFaults,     \* history: the calls whose provider call raised
    sdk,                \* server_sdk.py's event_generator, fed the same events
    step,               \* supersteps of the graph executed in this run
    parked              \* the request served concurrently, while it waits

vars == <<pc, connected, frames, current_tool, message_content, events,
          emitted, handled, loopState, messages, llm, calls, finishOrder,
          modelInvocations, toolInvocations, fault, nextId,
          framesAtDisconnect, stepsAfterDisconnect, tavily_client, search,
          mode, response, providerFaults, sdk, step, parked>>

----------------------------------------------------------------------------
(* Bounds *)

MaxToolCalls == 2   \* tool calls requested in one run, over all its rounds
MaxFrags == 2       \* content fragments streamed in one run
MaxQueue == 2       \* internal events waiting to be consumed
MaxHits == 3        \* results the search provider has for a query
MaxEvents == 3      \* internal events fed to the two server variants

\* config.py TAVILY_MAX_RESULTS: read from the environment (default 5);
\* configured small here so that the provider has more hits than it
\* may return
TAVILY_MAX_RESULTS == 2

\* the n-th content fragment of a run has a text of its own; a fragment at
\* an odd position may also be empty (a chunk that opens a reply or carries
\* a tool call has no content)
FragmentTexts == <<"x", "y", "z", "w">>
Fragments(n) ==
    IF n % 2 = 1 THEN {<<>>, <<FragmentTexts[n]>>} ELSE {<<FragmentTexts[n]>>}
Queries == <<"q1", "q2">>
FaultMsgs == {<<"timeout">>, <<"rate limit">>}
NoText == <<>>
None == "None"

----------------------------------------------------------------------------
(* Data *)

\* tools.py: TOOLS = [web_search]
TOOLS == {"web_search"}

\* server.py: event.get("name", "unknown"), current_tool or "unknown"
Unknown == "unknown"

Min(a, b) == IF a < b THEN a ELSE b

\* server.py: str(tool_output)[:500]
TruncLen == 500

Truncate(t) == SubSeq(t, 1, Min(Len(t), TruncLen))

Message(role, content, tool_calls, tool_call_id) ==
    [role |-> role, content |-> content, tool_calls |-> tool_calls,
     tool_call_id |-> tool_call_id]

Event(event, name, chunk, input, output, run) ==
    [event |-> event, name |-> name, chunk |-> chunk, input |-> input,
     output |-> output, run |-> run]

Frame(event, type, content, key, value) ==
    [event |-> event, type |-> type, content |-> content,
     metadata |-> [key |-> key, value |-> value]]

IdleLlm == [inflight |-> FALSE, text |-> NoText]

\* /api/chat has not answered
NoResponse == [type |-> "none", content |-> NoText]

RECURSIVE Concat(_)
Concat(ss) == IF ss = <<>> THEN <<>> ELSE Head(ss) \o Concat(Tail(ss))

----------------------------------------------------------------------------
(* The search tool adapter: tools.py *)

\* a result of the provider; a field the provider left out is None
HitPool ==
    {[title |-> "T1", url |-> "U1", content |-> "C1"],
     [title |-> None, url |-> "U2", content |-> None],
     [title |-> "T3", url |-> None, content |-> "C3"]}

ProviderFaultMsgs == {<<"connection refused">>, <<"401 unauthorized">>}

RECURSIVE HitSeqs(_)
HitSeqs(n) ==
    IF n = 0 THEN {<<>>}
    ELSE LET shorter == HitSeqs(n - 1)
         IN shorter \cup {Append(q, h) : q \in shorter, h \in HitPool}

ProviderOk(hits) == [raises |-> FALSE, msg |-> NoText, hits |-> hits]
ProviderRaises(msg) == [raises |-> TRUE, msg |-> msg, hits |-> <<>>]

\* what the provider does when it is called: it raises, or it has some
\* hits for the query
Providers ==
    {ProviderRaises(m) : m \in ProviderFaultMsgs}
        \cup {ProviderOk(h) : h \in HitSeqs(MaxHits)}

\* tavily_client.search(query=..., max_results=..., ...): the provider
\* returns at most max_results of its hits, in its order, or raises
tavily_search(query, max_results, provider) ==
    IF provider.raises
    THEN [raised |-> TRUE, msg |-> provider.msg, results |-> <<>>]
    ELSE [raised |-> FALSE, msg |-> NoText,
          results |-> SubSeq(provider.hits, 1,
                             Min(Len(provider.hits), max_results))]

\* variant: the credential check is missing
HasClient_Always(client) == TRUE

\* "if not tavily_client"
HasClient(client) == client # None

NotConfiguredText ==
    <<"Error", ": Tavily API key ", "not configured",
      ". Cannot perform web search.">>

\* variant: the provider's message is left out
SearchErrorText_NoMessage(msg) == <<"Error", " performing web search: ">>

\* f"Error performing web search: {str(e)}"
SearchErrorText(msg) == <<"Error", " performing web search: ">> \o msg

\* variant: the fault of the provider leaves the adapter
SearchFault_Reraise(msg) ==
    [raised |-> TRUE, text |-> msg, provider_calls |-> 1]

\* "except Exception as e": the fault is returned as a text
SearchFault(msg) ==
    [raised |-> FALSE, text |-> SearchErrorText(msg), provider_calls |-> 1]

\* result.get(key, default)
Get(v, default) == IF v = None THEN default ELSE v

\* enumerate(..., 1): the number of the idx-th result
Numbers == <<"1", "2", "3", "4", "5", "6">>

\* variant: the URL line is left out
FormatEntry_NoUrl(idx, result) ==
    <<"\n", Numbers[idx], ". ", Get(result.title, "No title"), "\n",
      "   ", Get(result.content, "No content available"), "\n">>

\* f"\n{idx}. {title}\n   URL: {url}\n   {content}\n"
FormatEntry(idx, result) ==
    <<"\n", Numbers[idx], ". ", Get(result.title, "No title"), "\n",
      "   URL: ", Get(result.url, ""), "\n",
      "   ", Get(result.content, "No content available"), "\n">>

\* "\n".join(parts)
RECURSIVE Join(_)
Join(parts) ==
    IF parts = <<>> THEN <<>>
    ELSE IF Len(parts) = 1 THEN parts[1]
    ELSE parts[1] \o <<"\n">> \o Join(Tail(parts))

\* the text block built from a non-empty list of results
FormatResults(query, results) ==
    Join(<<<<"Search results for: ", query, "\n">>>>
         \o [k \in 1..Len(results) |-> FormatEntry(k, results[k])])

\* web_search(query): the value returned (raised = FALSE) or the fault that
\* leaves the adapter (raised = TRUE), and the number of provider calls made
web_search(client, query, provider) ==
    IF ~HasClient(client)
    THEN [raised |-> FALSE, text |-> NotConfiguredText, provider_calls |-> 0]
    ELSE LET resp == tavily_search(query, TAVILY_MAX_RESULTS, provider)
         IN IF resp.raised
            THEN SearchFault(resp.msg)
            ELSE IF resp.results = <<>>
            THEN [raised |-> FALSE,
                  text |-> <<"No results found for query: ", query>>,
                  provider_calls |-> 1]
            ELSE [raised |-> FALSE,
                  text |-> FormatResults(query, resp.results),
                  provider_calls |-> 1]

IdleSearch ==
    [phase |-> "idle", query |-> "", provider |-> ProviderOk(<<>>),
     result |-> [raised |-> FALSE, text |-> NoText, provider_calls |-> 0]]

\* server_sdk.py's event_generator before it is started: the frames it
\* has yielded, as written on the wire, and its two locals
IdleSdk == [wire |-> <<>>, current_tool |-> None, message_content |-> <<>>]

\* no other request is being served
NoRequest == [id |-> 0, emitted |-> <<>>]

\* the state of the request before it is served
InitRequest ==
    /\ pc = "start"
    /\ connected = TRUE
    /\ frames = <<>>
    /\ current_tool = None
    /\ message_content = <<>>
    /\ events = <<>>
    /\ emitted = <<>>
    /\ handled = 0
    /\ loopState = "NOT_STARTED"
    /\ messages = <<Message("user", <<"question">>, <<>>, 0)>>
    /\ llm = IdleLlm
    /\ calls = <<>>
    /\ finishOrder = <<>>
    /\ modelInvocations = 0
    /\ toolInvocations = 0
    /\ fault = NoText
    /\ nextId = 1
    /\ framesAtDisconnect = 0
    /\ stepsAfterDisconnect = 0
    /\ search = IdleSearch
    /\ mode = "none"
    /\ response = NoResponse
    /\ providerFaults = {}
    /\ sdk = IdleSdk
    /\ step = 0
    /\ parked = NoRequest

\* the server with its search credential configured
Init ==
    /\ InitRequest
    /\ tavily_client = "TavilyClient"

\* the adapter alone, with or without the credential
SearchInit ==
    /\ InitRequest
    /\ tavily_client \in {None, "TavilyClient"}

\* web_search.invoke({"query": query}), as in tests/test_agent.py
SearchCall(query, provider) ==
    /\ search.phase = "idle"
    /\ search' = [phase |-> "returned", query |-> query,
                  provider |-> provider,
                  result |-> web_search(tavily_client, query, provider)]
    /\ UNCHANGED <<sdk, step, parked>>
    /\ UNCHANGED <<pc, connected, frames, current_tool, message_content,
                   events, emitted, handled, loopState, messages, llm, calls,
                   finishOrder, modelInvocations, toolInvocations, fault,
                   nextId, framesAtDisconnect, stepsAfterDisconnect,
                   tavily_client, mode, response, providerFaults>>

QuerySet == {Queries[k] : k \in 1..Len(Queries)}

SearchNext == \E q \in QuerySet, p \in Providers : SearchCall(q, p)

SearchSpec == SearchInit /\ [][SearchNext]_vars

----------------------------------------------------------------------------
(* The agent loop: create_agent's graph, run by stream_agent *)

\* stream_agent: an internal event is handed to the consumer in the order
\* in which it is produced
Emit(e) ==
    /\ events' = IF mode = "stream" THEN Append(events, e) ELSE events
    /\ emitted' = Append(emitted, e)

\* the loop runs inside stream_agent (/api/stream) or inside run_agent
\* (/api/chat)
LoopRunning ==
    \/ mode = "stream" /\ pc = "streaming" /\ connected
    \/ mode = "chat" /\ pc = "running"

\* number of content fragments the model has produced so far, for the
\* request served and for the one beside it
FragsProduced ==
    Cardinality({i \in 1..Len(emitted) :
        emitted[i].event = "on_chat_model_stream"})
    + Cardinality({i \in 1..Len(parked.emitted) :
        parked.emitted[i].event = "on_chat_model_stream"})

\* agent node: llm_with_tools.invoke(state["messages"]) begins
AgentStart ==
    /\ LoopRunning
    /\ loopState = "AWAITING_MODEL"
    /\ ~llm.inflight
    /\ Len(events) < MaxQueue
    /\ llm' = [inflight |-> TRUE, text |-> NoText]
    /\ modelInvocations' = modelInvocations + 1
    /\ Emit(Event("on_chat_model_start", "ChatOpenAI", NoText, "", NoText, 0))
    /\ UNCHANGED <<sdk, step, parked>>
    /\ UNCHANGED <<tavily_client, search, mode, response, providerFaults>>
    /\ UNCHANGED <<pc, connected, frames, current_tool, message_content,
                   handled, loopState, messages, calls, finishOrder,
                   toolInvocations, fault, nextId, framesAtDisconnect,
                   stepsAfterDisconnect>>

\* agent node: the model (streaming=True) produces one content fragment
AgentChunk(f) ==
    /\ LoopRunning
    /\ loopState = "AWAITING_MODEL"
    /\ llm.inflight
    /\ FragsProduced < MaxFrags
    /\ Len(events) < MaxQueue
    /\ llm' = [llm EXCEPT !.text = @ \o f]
    /\ Emit(Event("on_chat_model_stream", "ChatOpenAI", f, "", NoText, 0))
    /\ UNCHANGED <<sdk, step, parked>>
    /\ UNCHANGED <<tavily_client, search, mode, response, providerFaults>>
    /\ UNCHANGED <<pc, connected, frames, current_tool, message_content,
                   handled, loopState, messages, calls, finishOrder,
                   modelInvocations, toolInvocations, fault, nextId,
                   framesAtDisconnect, stepsAfterDisconnect>>

\* the tool calls of an assistant message: fresh ids, in order
NewToolCalls(args) ==
    [j \in 1..Len(args) |->
        [id |-> nextId + j - 1, name |-> args[j].name, args |-> args[j].args]]

\* ToolNode's answer to a call whose name is not among its tools; the call
\* is answered without any tool being invoked
InvalidToolText(name) ==
    <<"Error: ", name, " is not a valid tool, try one of [", "web_search",
      "].">>

\* tools node: the calls of the last assistant message, none begun
NewCalls(tcs) ==
    [j \in 1..Len(tcs) |->
        [id |-> tcs[j].id, name |-> tcs[j].name, args |-> tcs[j].args,
         status |-> IF tcs[j].name \in TOOLS THEN "pending" ELSE "done",
         output |-> IF tcs[j].name \in TOOLS THEN NoText
                    ELSE InvalidToolText(tcs[j].name)]]

\* variant: the edge always leads to the tools node
tools_condition_Always(msg) == "tools"

\* tools_condition: "tools" when the last message has tool calls, else END
tools_condition(msg) == IF msg.tool_calls # <<>> THEN "tools" ELSE "END"

\* agent node returns {"messages": [reply]}; add_messages appends it; the
\* conditional edge routes to the tools node or to END
AgentReturn(args) ==
    /\ LoopRunning
    /\ loopState = "AWAITING_MODEL"
    /\ llm.inflight
    /\ nextId - 1 + Len(args) <= MaxToolCalls
    /\ LET reply == Message("assistant", llm.text, NewToolCalls(args), 0)
       IN /\ messages' = Append(messages, reply)
          /\ IF tools_condition(reply) = "tools"
                THEN /\ loopState' = "AWAITING_TOOLS"
                     /\ calls' = NewCalls(reply.tool_calls)
                ELSE /\ loopState' = "DONE"
                     /\ calls' = <<>>
    /\ finishOrder' = <<>>
    /\ llm' = IdleLlm
    /\ nextId' = nextId + Len(args)
    /\ UNCHANGED <<sdk, step, parked>>
    /\ UNCHANGED <<tavily_client, search, mode, response, providerFaults>>
    /\ UNCHANGED <<pc, connected, frames, current_tool, message_content,
                   events, emitted, handled, modelInvocations,
                   toolInvocations, fault, framesAtDisconnect,
                   stepsAfterDisconnect>>

\* agent node: llm_with_tools.invoke raises; nothing in the graph catches it
AgentFault(msg) ==
    /\ LoopRunning
    /\ loopState = "AWAITING_MODEL"
    /\ llm.inflight
    /\ loopState' = "FAULT"
    /\ fault' = msg
    /\ llm' = IdleLlm
    /\ UNCHANGED <<sdk, step, parked>>
    /\ UNCHANGED <<tavily_client, search, mode, response, providerFaults>>
    /\ UNCHANGED <<pc, connected, frames, current_tool, message_content,
                   events, emitted, handled, messages, calls, finishOrder,
                   modelInvocations, toolInvocations, nextId,
                   framesAtDisconnect, stepsAfterDisconnect>>

\* tools node: one call of the step begins; the calls of one step run
\* side by side
ToolStart(j) ==
    /\ LoopRunning
    /\ loopState = "AWAITING_TOOLS"
    /\ calls[j].status = "pending"
    /\ Len(events) < MaxQueue
    /\ calls' = [calls EXCEPT ![j].status = "inflight"]
    /\ toolInvocations' = toolInvocations + 1
    /\ Emit(Event("on_tool_start", calls[j].name, NoText, calls[j].args,
                  NoText, calls[j].id))
    /\ UNCHANGED <<sdk, step, parked>>
    /\ UNCHANGED <<tavily_client, search, mode, response, providerFaults>>
    /\ UNCHANGED <<pc, connected, frames, current_tool, message_content,
                   handled, loopState, messages, llm, finishOrder,
                   modelInvocations, fault, nextId, framesAtDisconnect,
                   stepsAfterDisconnect>>

\* what the provider does for the tool calls of a run
LoopProviders ==
    {ProviderRaises(<<"connection refused">>),
     ProviderOk(<<[title |-> "T1", url |-> "U1", content |-> "C1"]>>)}

\* tools node: one call in flight ends with web_search's return value; a
\* fault leaving the tool would leave the tools node and the loop
ToolEnd(j, provider) ==
    /\ LoopRunning
    /\ loopState = "AWAITING_TOOLS"
    /\ calls[j].status = "inflight"
    /\ Len(events) < MaxQueue
    /\ LET r == web_search(tavily_client, calls[j].args, provider)
       IN IF r.raised
          THEN /\ loopState' = "FAULT"
               /\ fault' = r.text
               /\ UNCHANGED <<calls, events, emitted, finishOrder>>
          ELSE /\ calls' = [calls EXCEPT ![j].status = "done",
                                         ![j].output = r.text]
               /\ Emit(Event("on_tool_end", calls[j].name, NoText,
                             calls[j].args, r.text, calls[j].id))
               /\ finishOrder' = Append(finishOrder, calls[j].id)
               /\ UNCHANGED <<loopState, fault>>
    /\ providerFaults' =
         IF provider.raises /\ HasClient(tavily_client)
         THEN providerFaults \cup {[id |-> calls[j].id, msg |-> provider.msg]}
         ELSE providerFaults
    /\ UNCHANGED <<sdk, step, parked>>
    /\ UNCHANGED <<tavily_client, search, mode, response>>
    /\ UNCHANGED <<pc, connected, frames, current_tool, message_content,
                   handled, messages, llm, modelInvocations,
                   toolInvocations, nextId, framesAtDisconnect,
                   stepsAfterDisconnect>>

\* variant: the results are labelled with the ids in the order in which
\* the calls ended
ToolResults_FinishOrder(cs, order) ==
    [j \in 1..Len(cs) |->
        Message("tool", cs[j].output, <<>>,
                IF j <= Len(order) THEN order[j] ELSE cs[j].id)]

\* variant: every id is off by one
ToolResults_NextId(cs, order) ==
    [j \in 1..Len(cs) |-> Message("tool", cs[j].output, <<>>, cs[j].id + 1)]

\* ToolNode: one tool-role message per call, in call order, each with the
\* id of its call
ToolResults(cs, order) ==
    [j \in 1..Len(cs) |-> Message("tool", cs[j].output, <<>>, cs[j].id)]

\* tools node returns when every call has ended; the edge leads back to
\* the agent node
ToolsReturn ==
    /\ LoopRunning
    /\ loopState = "AWAITING_TOOLS"
    /\ \A j \in 1..Len(calls) : calls[j].status = "done"
    /\ messages' = messages \o ToolResults(calls, finishOrder)
    /\ loopState' = "AWAITING_MODEL"
    /\ calls' = <<>>
    /\ UNCHANGED <<sdk, step, parked>>
    /\ UNCHANGED <<tavily_client, search, mode, response, providerFaults>>
    /\ UNCHANGED <<pc, connected, frames, current_tool, message_content,
                   events, emitted, handled, llm, finishOrder,
                   modelInvocations, toolInvocations, fault, nextId,
                   framesAtDisconnect, stepsAfterDisconnect>>

----------------------------------------------------------------------------
(* The streaming gateway: stream_chat.event_generator *)

ProcessingFrame ==
    Frame("state_update", "state_update", <<"processing">>, "model",
          <<"gpt-4o-mini">>)

\* variant: only the last fragment is reported
CompletedFrame_LastFragment(mc) ==
    Frame("state_update", "state_update", <<"completed">>, "full_response",
          IF mc = <<>> THEN <<>> ELSE mc[Len(mc)])

CompletedFrame(mc) ==
    Frame("state_update", "state_update", <<"completed">>, "full_response",
          Concat(mc))

\* variant: the error frame carries a fixed text
ErrorFrame_Generic(msg) ==
    Frame("error", "error", <<"internal error">>, "", NoText)

ErrorFrame(msg) == Frame("error", "error", msg, "", NoText)

\* variant: the except clause also catches the cancellation
Caught_All(exc) == exc \in {"Exception", "CancelledError"}

\* "except Exception as e": a cancellation (CancelledError, GeneratorExit)
\* is a BaseException and passes through
Caught(exc) == exc = "Exception"

\* the frames yielded by the except clause for an exception of kind exc
OnRaise(exc, msg) == IF Caught(exc) THEN <<ErrorFrame(msg)>> ELSE <<>>

\* the generator is started: the initial state update is yielded, then
\* the locals are set and stream_agent starts the loop
GenStart ==
    /\ pc = "start"
    /\ connected
    /\ mode' = "stream"
    /\ frames' = Append(frames, ProcessingFrame)
    /\ current_tool' = None
    /\ message_content' = <<>>
    /\ pc' = "streaming"
    /\ loopState' = "AWAITING_MODEL"
    /\ UNCHANGED <<sdk, step, parked>>
    /\ UNCHANGED <<tavily_client, search, response, providerFaults>>
    /\ UNCHANGED <<connected, events, emitted, handled, messages, llm, calls,
                   finishOrder, modelInvocations, toolInvocations, fault,
                   nextId, framesAtDisconnect, stepsAfterDisconnect>>

\* content of a tool_end frame: current_tool or "unknown"
ToolEndName(e, ct) == IF ct = None THEN Unknown ELSE ct

\* variant: the cumulative text is sent with every fragment
ChunkContent_Cumulative(e, mc) == Concat(mc) \o e.chunk

\* content of a message frame: chunk.content
ChunkContent(e, mc) == e.chunk

\* variant: the body's type differs from the event name
ChunkFrame_TypeChunk(e, mc) ==
    Frame("message", "message_chunk", ChunkContent(e, mc), "streaming",
          <<"True">>)

\* the frame of a content fragment: event "message", type "message"
ChunkFrame(e, mc) ==
    Frame("message", "message", ChunkContent(e, mc), "streaming", <<"True">>)

\* variant: the tool's input arguments are left out of the metadata
ToolStartFrame_NoInput(e) ==
    Frame("tool_start", "tool_start", <<e.name>>, "tool_input", NoText)

\* the tool_start frame: content = event name, metadata.tool_input =
\* data.input
ToolStartFrame(e) ==
    Frame("tool_start", "tool_start", <<e.name>>, "tool_input", <<e.input>>)

\* one iteration of "async for event in stream_agent(...)": the frames
\* yielded for event e and the new values of the two locals
HandleBody(e, ct, mc) ==
    IF e.event = "on_chat_model_stream"
    THEN IF e.chunk # NoText
         THEN [out |-> <<ChunkFrame(e, mc)>>,
               ct |-> ct, mc |-> Append(mc, e.chunk)]
         ELSE [out |-> <<>>, ct |-> ct, mc |-> mc]
    ELSE IF e.event = "on_tool_start"
    THEN [out |-> <<ToolStartFrame(e)>>, ct |-> e.name, mc |-> mc]
    ELSE IF e.event = "on_tool_end"
    THEN [out |-> <<Frame("tool_end", "tool_end", <<ToolEndName(e, ct)>>,
                          "tool_output", Truncate(e.output))>>,
          ct |-> None, mc |-> mc]
    ELSE [out |-> <<>>, ct |-> ct, mc |-> mc]

\* variant: the newest internal event is taken first
NextEvent_Newest(q) == q[Len(q)]

\* stream_agent yields the internal events in the order of their production
NextEvent(q) == Head(q)

Remove(q, k) == SubSeq(q, 1, k - 1) \o SubSeq(q, k + 1, Len(q))

IndexOf(q, e) == CHOOSE k \in 1..Len(q) : q[k] = e

HandleEvent ==
    /\ pc = "streaming"
    /\ connected
    /\ events # <<>>
    /\ LET e == NextEvent(events)
           r == HandleBody(e, current_tool, message_content)
       IN /\ frames' = frames \o r.out
          /\ current_tool' = r.ct
          /\ message_content' = r.mc
          /\ events' = Remove(events, IndexOf(events, e))
    /\ handled' = handled + 1
    /\ UNCHANGED <<sdk, step, parked>>
    /\ UNCHANGED <<tavily_client, search, mode, response, providerFaults>>
    /\ UNCHANGED <<pc, connected, emitted, loopState, messages, llm, calls,
                   finishOrder, modelInvocations, toolInvocations, fault,
                   nextId, framesAtDisconnect, stepsAfterDisconnect>>

\* variant: the completion state is yielded without waiting for the end of
\* the stream of internal events
GenComplete_Early ==
    /\ pc = "streaming"
    /\ connected
    /\ frames' = Append(frames, CompletedFrame(message_content))
    /\ pc' = "done"
    /\ UNCHANGED <<sdk, step, parked>>
    /\ UNCHANGED <<tavily_client, search, mode, response, providerFaults>>
    /\ UNCHANGED <<connected, current_tool, message_content, events, emitted,
                   handled, loopState, messages, llm, calls, finishOrder,
                   modelInvocations, toolInvocations, fault, nextId,
                   framesAtDisconnect, stepsAfterDisconnect>>

\* the stream of internal events ends after the loop reached END: the
\* completion state is yielded and the generator returns
GenComplete ==
    /\ pc = "streaming"
    /\ connected
    /\ loopState = "DONE"
    /\ events = <<>>
    /\ frames' = Append(frames, CompletedFrame(message_content))
    /\ pc' = "done"
    /\ UNCHANGED <<sdk, step, parked>>
    /\ UNCHANGED <<tavily_client, search, mode, response, providerFaults>>
    /\ UNCHANGED <<connected, current_tool, message_content, events, emitted,
                   handled, loopState, messages, llm, calls, finishOrder,
                   modelInvocations, toolInvocations, fault, nextId,
                   framesAtDisconnect, stepsAfterDisconnect>>

\* the fault raised in the loop leaves stream_agent after the events
\* produced before it; the except clause yields the error frame
GenFault ==
    /\ pc = "streaming"
    /\ connected
    /\ loopState = "FAULT"
    /\ events = <<>>
    /\ frames' = frames \o OnRaise("Exception", fault)
    /\ pc' = "failed"
    /\ UNCHANGED <<sdk, step, parked>>
    /\ UNCHANGED <<tavily_client, search, mode, response, providerFaults>>
    /\ UNCHANGED <<connected, current_tool, message_content, events, emitted,
                   handled, loopState, messages, llm, calls, finishOrder,
                   modelInvocations, toolInvocations, fault, nextId,
                   framesAtDisconnect, stepsAfterDisconnect>>

\* the client goes away: the response cancels the generator, and with it
\* the task running the loop.  The agent node and web_search are plain
\* (blocking) functions run on worker threads; a call already running
\* there is not interrupted.
Disconnect ==
    /\ pc \in {"start", "streaming"}
    /\ mode # "chat"
    /\ connected
    /\ connected' = FALSE
    /\ pc' = "cancelled"
    /\ framesAtDisconnect' = Len(frames)
    /\ frames' = frames \o OnRaise("CancelledError", <<"cancelled">>)
    /\ loopState' = IF loopState \in {"AWAITING_MODEL", "AWAITING_TOOLS"}
                    THEN "CANCELLED" ELSE loopState
    /\ events' = <<>>
    /\ UNCHANGED <<sdk, step, parked>>
    /\ UNCHANGED <<tavily_client, search, mode, response, providerFaults>>
    /\ UNCHANGED <<current_tool, message_content, emitted, handled, messages,
                   llm, calls, finishOrder, modelInvocations,
                   toolInvocations, fault, nextId, stepsAfterDisconnect>>

\* after the cancellation: llm_with_tools.invoke, still running on its
\* worker thread, runs to its end; its reply is dropped
OrphanModelReturn ==
    /\ ~connected
    /\ llm.inflight
    /\ llm' = IdleLlm
    /\ stepsAfterDisconnect' = stepsAfterDisconnect + 1
    /\ UNCHANGED <<sdk, step, parked>>
    /\ UNCHANGED <<tavily_client, search, mode, response, providerFaults>>
    /\ UNCHANGED <<pc, connected, frames, current_tool, message_content,
                   events, emitted, handled, loopState, messages, calls,
                   finishOrder, modelInvocations, toolInvocations, fault,
                   nextId, framesAtDisconnect>>

\* after the cancellation: a web_search call still running on its worker
\* thread runs to its end; its result is dropped
OrphanToolReturn(j) ==
    /\ ~connected
    /\ j \in 1..Len(calls)
    /\ calls[j].status = "inflight"
    /\ calls' = [calls EXCEPT ![j].status = "done"]
    /\ stepsAfterDisconnect' = stepsAfterDisconnect + 1
    /\ UNCHANGED <<sdk, step, parked>>
    /\ UNCHANGED <<tavily_client, search, mode, response, providerFaults>>
    /\ UNCHANGED <<pc, connected, frames, current_tool, message_content,
                   events, emitted, handled, loopState, messages, llm,
                   finishOrder, modelInvocations, toolInvocations, fault,
                   nextId, framesAtDisconnect>>

----------------------------------------------------------------------------
(* POST /api/chat: chat and run_agent *)

\* variant: the first message of the result is returned
run_agent_First(result) == result[1].content

\* run_agent: the content of result["messages"][-1]
run_agent(result) == result[Len(result)].content

\* variant: the fault is answered as an ordinary message
ChatErrorResponse_AsMessage(msg) == [type |-> "message", content |-> msg]

\* chat's except clause: {"type": "error", "content": str(e)}
ChatErrorResponse(msg) == [type |-> "error", content |-> msg]

\* chat calls run_agent, which runs the loop on [("user", question)]
ChatStart ==
    /\ pc = "start"
    /\ connected
    /\ mode' = "chat"
    /\ pc' = "running"
    /\ loopState' = "AWAITING_MODEL"
    /\ UNCHANGED <<sdk, step, parked>>
    /\ UNCHANGED <<connected, frames, current_tool, message_content, events,
                   emitted, handled, messages, llm, calls, finishOrder,
                   modelInvocations, toolInvocations, fault, nextId,
                   framesAtDisconnect, stepsAfterDisconnect, tavily_client,
                   search, response, providerFaults>>

\* agent.invoke has returned: the response of type "message"
ChatReturn ==
    /\ mode = "chat"
    /\ pc = "running"
    /\ loopState = "DONE"
    /\ response' = [type |-> "message", content |-> run_agent(messages)]
    /\ pc' = "responded"
    /\ UNCHANGED <<sdk, step, parked>>
    /\ UNCHANGED <<connected, frames, current_tool, message_content, events,
                   emitted, handled, loopState, messages, llm, calls,
                   finishOrder, modelInvocations, toolInvocations, fault,
                   nextId, framesAtDisconnect, stepsAfterDisconnect,
                   tavily_client, search, mode, providerFaults>>

\* agent.invoke has raised: the except clause answers
ChatFault ==
    /\ mode = "chat"
    /\ pc = "running"
    /\ loopState = "FAULT"
    /\ response' = ChatErrorResponse(fault)
    /\ pc' = "responded"
    /\ UNCHANGED <<sdk, step, parked>>
    /\ UNCHANGED <<connected, frames, current_tool, message_content, events,
                   emitted, handled, loopState, messages, llm, calls,
                   finishOrder, modelInvocations, toolInvocations, fault,
                   nextId, framesAtDisconnect, stepsAfterDisconnect,
                   tavily_client, search, mode, providerFaults>>

----------------------------------------------------------------------------

\* the arguments of the k calls requested by one reply, k \in 0..MaxToolCalls;
\* successive calls of one reply ask different queries
CallArgs ==
    LET Query(j) == Queries[((j - 1) % Len(Queries)) + 1]
        Registered(k) ==
            [j \in 1..k |-> [name |-> "web_search", args |-> Query(j)]]
        LastUnregistered(k) ==
            [j \in 1..k |-> [name |-> IF j = k THEN "calculator"
                                      ELSE "web_search",
                             args |-> Query(j)]]
    IN {Registered(k) : k \in 0..MaxToolCalls}
         \cup {LastUnregistered(k) : k \in 1..MaxToolCalls}

Next ==
    \/ GenStart
    \/ AgentStart
    \/ \E f \in Fragments(FragsProduced + 1) : AgentChunk(f)
    \/ \E args \in CallArgs : AgentReturn(args)
    \/ \E msg \in FaultMsgs : AgentFault(msg)
    \/ \E j \in 1..Len(calls) : ToolStart(j)
    \/ \E j \in 1..Len(calls), p \in LoopProviders : ToolEnd(j, p)
    \/ ToolsReturn
    \/ HandleEvent
    \/ GenComplete
    \/ GenFault
    \/ Disconnect
    \/ OrphanModelReturn
    \/ \E j \in 1..Len(calls) : OrphanToolReturn(j)
    \/ ChatStart
    \/ ChatReturn
    \/ ChatFault

Spec == Init /\ [][Next]_vars

----------------------------------------------------------------------------
(* server_sdk.py: the second variant of GET /api/stream *)

\* json.dumps(body), the same call in both variants: the text is kept as
\* the body it encodes
Json(type, content, key, value) ==
    [type |-> type, content |-> content,
     metadata |-> [key |-> key, value |-> value]]

\* one line of a frame on the wire
Line(field, value, eol) == [field |-> field, value |-> value, eol |-> eol]

\* a frame on the wire: the event line, the data line and an empty line
SseFrame(event, data, eol) ==
    <<Line("event", event, eol), Line("data", data, eol), Line("", "", eol)>>

\* server.py: EventSourceResponse writes the dict {"event", "data"} yielded
\* by the generator, its lines ended by "\r\n"
SseEncode(fr) ==
    SseFrame(fr.event,
             Json(fr.type, fr.content, fr.metadata.key, fr.metadata.value),
             "\r\n")

\* server_sdk.py: f"event: <event>\ndata: {json.dumps(<body>)}\n\n", passed
\* on as it is by StreamingResponse
SdkFrame(event, type, content, key, value) ==
    SseFrame(event, Json(type, content, key, value), "\n")

\* what a client reads from a frame on the wire, whatever the line ends
ParseSse(w) ==
    LET ev == w[CHOOSE k \in 1..Len(w) : w[k].field = "event"].value
        d == w[CHOOSE k \in 1..Len(w) : w[k].field = "data"].value
    IN Frame(ev, d.type, d.content, d.metadata.key, d.metadata.value)

SdkProcessingFrame ==
    SdkFrame("state_update", "state_update", <<"processing">>, "model",
             <<"gpt-4o-mini">>)

SdkCompletedFrame(mc) ==
    SdkFrame("state_update", "state_update", <<"completed">>,
             "full_response", Concat(mc))

SdkErrorFrame(msg) == SdkFrame("error", "error", msg, "", NoText)

\* variant: the tool_end frame is named after the event
SdkToolEndName_FromEvent(e, ct) == e.name

\* current_tool or 'unknown'
SdkToolEndName(e, ct) == IF ct = None THEN Unknown ELSE ct

\* server_sdk.py, one iteration of "async for event in stream_agent(...)":
\* the frames yielded for event e and the new values of the two locals
SdkHandleBody(e, ct, mc) ==
    IF e.event = "on_chat_model_stream"
    THEN IF e.chunk # NoText
         THEN [out |-> <<SdkFrame("message", "message", e.chunk, "streaming",
                                  <<"True">>)>>,
               ct |-> ct, mc |-> Append(mc, e.chunk)]
         ELSE [out |-> <<>>, ct |-> ct, mc |-> mc]
    ELSE IF e.event = "on_tool_start"
    THEN [out |-> <<SdkFrame("tool_start", "tool_start", <<e.name>>,
                             "tool_input", <<e.input>>)>>,
          ct |-> e.name, mc |-> mc]
    ELSE IF e.event = "on_tool_end"
    THEN [out |-> <<SdkFrame("tool_end", "tool_end",
                             <<SdkToolEndName(e, ct)>>, "tool_output",
                             Truncate(e.output))>>,
          ct |-> None, mc |-> mc]
    ELSE [out |-> <<>>, ct |-> ct, mc |-> mc]

\* the internal events fed to the two generators: any event of
\* astream_events, in any order
EquivEvents ==
    {Event("on_chat_model_start", "ChatOpenAI", NoText, "", NoText, 0),
     Event("on_chat_model_stream", "ChatOpenAI", <<"x">>, "", NoText, 0),
     Event("on_chat_model_stream", "ChatOpenAI", NoText, "", NoText, 0),
     Event("on_tool_start", "web_search", NoText, "q1", NoText, 1),
     Event("on_tool_start", "calculator", NoText, "q2", NoText, 2),
     Event("on_tool_end", "web_search", NoText, "q1", <<"result">>, 1)}

\* both generators are started: each yields its initial state update and
\* sets its locals
EquivStart ==
    /\ pc = "start"
    /\ frames' = Append(frames, ProcessingFrame)
    /\ current_tool' = None
    /\ message_content' = <<>>
    /\ sdk' = [wire |-> Append(sdk.wire, SdkProcessingFrame),
               current_tool |-> None, message_content |-> <<>>]
    /\ pc' = "streaming"
    /\ UNCHANGED <<connected, events, emitted, handled, loopState, messages,
                   llm, calls, finishOrder, modelInvocations,
                   toolInvocations, fault, nextId, framesAtDisconnect,
                   stepsAfterDisconnect, tavily_client, search, mode,
                   response, providerFaults, step, parked>>

\* stream_agent yields the same internal event e to both generators
EquivEvent(e) ==
    /\ pc = "streaming"
    /\ Len(emitted) < MaxEvents
    /\ emitted' = Append(emitted, e)
    /\ handled' = handled + 1
    /\ LET r == HandleBody(e, current_tool, message_content)
           s == SdkHandleBody(e, sdk.current_tool, sdk.message_content)
       IN /\ frames' = frames \o r.out
          /\ current_tool' = r.ct
          /\ message_content' = r.mc
          /\ sdk' = [wire |-> sdk.wire \o s.out, current_tool |-> s.ct,
                     message_content |-> s.mc]
    /\ UNCHANGED <<pc, connected, events, loopState, messages, llm, calls,
                   finishOrder, modelInvocations, toolInvocations, fault,
                   nextId, framesAtDisconnect, stepsAfterDisconnect,
                   tavily_client, search, mode, response, providerFaults,
                   step, parked>>

\* stream_agent ends: both generators yield their completion state
EquivEnd ==
    /\ pc = "streaming"
    /\ frames' = Append(frames, CompletedFrame(message_content))
    /\ sdk' = [sdk EXCEPT
                 !.wire = Append(@, SdkCompletedFrame(sdk.message_content))]
    /\ pc' = "done"
    /\ UNCHANGED <<connected, current_tool, message_content, events, emitted,
                   handled, loopState, messages, llm, calls, finishOrder,
                   modelInvocations, toolInvocations, fault, nextId,
                   framesAtDisconnect, stepsAfterDisconnect, tavily_client,
                   search, mode, response, providerFaults, step, parked>>

\* stream_agent raises after the events it has yielded: the except clause
\* of each generator yields its error frame
EquivFault(msg) ==
    /\ pc = "streaming"
    /\ fault' = msg
    /\ frames' = frames \o OnRaise("Exception", msg)
    /\ sdk' = [sdk EXCEPT !.wire = Append(@, SdkErrorFrame(msg))]
    /\ pc' = "failed"
    /\ UNCHANGED <<connected, current_tool, message_content, events, emitted,
                   handled, loopState, messages, llm, calls, finishOrder,
                   modelInvocations, toolInvocations, nextId,
                   framesAtDisconnect, stepsAfterDisconnect, tavily_client,
                   search, mode, response, providerFaults, step, parked>>

EquivNext ==
    \/ EquivStart
    \/ \E e \in EquivEvents : EquivEvent(e)
    \/ EquivEnd
    \/ \E msg \in FaultMsgs : EquivFault(msg)

EquivSpec == Init /\ [][EquivNext]_vars

----------------------------------------------------------------------------
(* The graph run step by step: agent.invoke / agent.astream_events *)

\* run_agent and stream_agent pass no config to the compiled graph, which
\* then runs under the library's default recursion limit: the graph stops
\* with a fault when work remains after this many steps.  The runs of Spec
\* take at most 2 * MaxToolCalls + 1 steps and stay below it.
RecursionLimit == 25

RecursionErrorText ==
    <<"Recursion limit of ", "25", " reached without hitting a stop condition">>

\* variant: the graph runs its steps without any limit
OutOfSteps_Never(s) == FALSE

\* the steps allowed to the run are used up
OutOfSteps(s) == s >= RecursionLimit

\* tool rounds completed: the run alternates agent and tools steps,
\* beginning with the agent node
Rounds == step \div 2

\* agent.invoke(...) / agent.astream_events(...): the run enters the graph
\* at the agent node
RoundsStart ==
    /\ loopState = "NOT_STARTED"
    /\ loopState' = "AWAITING_MODEL"
    /\ UNCHANGED <<pc, connected, frames, current_tool, message_content,
                   events, emitted, handled, messages, llm, calls,
                   finishOrder, modelInvocations, toolInvocations, fault,
                   nextId, framesAtDisconnect, stepsAfterDisconnect,
                   tavily_client, search, mode, response, providerFaults,
                   sdk, step, parked>>

\* one step of the agent node, the model answering with the tool calls
\* args; the conditional edge routes the reply.  The texts of the
\* conversation are left out.
AgentStep(args) ==
    /\ loopState = "AWAITING_MODEL"
    /\ ~OutOfSteps(step)
    /\ step' = step + 1
    /\ modelInvocations' = modelInvocations + 1
    /\ LET reply == Message("assistant", NoText, NewToolCalls(args), 0)
       IN IF tools_condition(reply) = "tools"
          THEN /\ loopState' = "AWAITING_TOOLS"
               /\ calls' = NewCalls(reply.tool_calls)
          ELSE /\ loopState' = "DONE"
               /\ calls' = <<>>
    /\ nextId' = nextId + Len(args)
    /\ UNCHANGED <<pc, connected, frames, current_tool, message_content,
                   events, emitted, handled, messages, llm, finishOrder,
                   toolInvocations, fault, framesAtDisconnect,
                   stepsAfterDisconnect, tavily_client, search, mode,
                   response, providerFaults, sdk, parked>>

\* one step of the tools node: the registered tools among the calls are
\* invoked and the edge leads back to the agent node
ToolsStep ==
    /\ loopState = "AWAITING_TOOLS"
    /\ ~OutOfSteps(step)
    /\ step' = step + 1
    /\ toolInvocations' = toolInvocations +
         Cardinality({j \in 1..Len(calls) : calls[j].name \in TOOLS})
    /\ calls' = <<>>
    /\ loopState' = "AWAITING_MODEL"
    /\ UNCHANGED <<pc, connected, frames, current_tool, message_content,
                   events, emitted, handled, messages, llm, finishOrder,
                   modelInvocations, fault, nextId, framesAtDisconnect,
                   stepsAfterDisconnect, tavily_client, search, mode,
                   response, providerFaults, sdk, parked>>

\* a node is due and the steps are used up: the run raises
\* GraphRecursionError
RecursionFault ==
    /\ loopState \in {"AWAITING_MODEL", "AWAITING_TOOLS"}
    /\ OutOfSteps(step)
    /\ loopState' = "FAULT"
    /\ fault' = RecursionErrorText
    /\ UNCHANGED <<pc, connected, frames, current_tool, message_content,
                   events, emitted, handled, messages, llm, calls,
                   finishOrder, modelInvocations, toolInvocations, nextId,
                   framesAtDisconnect, stepsAfterDisconnect, tavily_client,
                   search, mode, response, providerFaults, sdk, step,
                   parked>>

RoundsNext ==
    \/ RoundsStart
    \/ \E args \in CallArgs : AgentStep(args)
    \/ ToolsStep
    \/ RecursionFault

RoundsSpec == Init /\ [][RoundsNext]_vars

----------------------------------------------------------------------------
(* Two requests of GET /api/stream served side by side *)

\* stream_agent: the initial state of a run holds the question of its
\* request and nothing of the conversations served before or beside it
InitialState(question, others) == <<Message("user", question, <<>>, 0)>>

\* a request accepted and not yet served: event_generator has not run, and
\* the run of the graph has not begun
FreshRequest(id, question, others) ==
    [id |-> id, pc |-> "start", connected |-> TRUE, frames |-> <<>>,
     current_tool |-> None, message_content |-> <<>>, events |-> <<>>,
     emitted |-> <<>>, handled |-> 0, loopState |-> "NOT_STARTED",
     messages |-> InitialState(question, others), llm |-> IdleLlm,
     calls |-> <<>>, finishOrder |-> <<>>, modelInvocations |-> 0,
     toolInvocations |-> 0, fault |-> NoText, framesAtDisconnect |-> 0,
     stepsAfterDisconnect |-> 0, mode |-> "none", response |-> NoResponse,
     providerFaults |-> {}]

\* the request whose generator and loop are taking their steps now
Running ==
    [id |-> IF parked.id = 1 THEN 2 ELSE 1, pc |-> pc,
     connected |-> connected, frames |-> frames,
     current_tool |-> current_tool, message_content |-> message_content,
     events |-> events, emitted |-> emitted, handled |-> handled,
     loopState |-> loopState, messages |-> messages, llm |-> llm,
     calls |-> calls, finishOrder |-> finishOrder,
     modelInvocations |-> modelInvocations,
     toolInvocations |-> toolInvocations, fault |-> fault,
     framesAtDisconnect |-> framesAtDisconnect,
     stepsAfterDisconnect |-> stepsAfterDisconnect, mode |-> mode,
     response |-> response, providerFaults |-> providerFaults]

\* a second request arrives, at any moment of the first or after it
Accept ==
    /\ parked.id = 0
    /\ parked' = FreshRequest(2, <<"question 2">>, messages)
    /\ UNCHANGED <<pc, connected, frames, current_tool, message_content,
                   events, emitted, handled, loopState, messages, llm, calls,
                   finishOrder, modelInvocations, toolInvocations, fault,
                   nextId, framesAtDisconnect, stepsAfterDisconnect,
                   tavily_client, search, mode, response, providerFaults,
                   sdk, step>>

\* variant: current_tool is one variable of the module, seen by every
\* generator
ResumedCurrentTool_Shared(own, last) == last

\* current_tool is a local of event_generator: each call of stream_chat
\* has its own
ResumedCurrentTool(own, last) == own

\* the steps of the two requests interleave: the other request goes on
\* with the locals of its generator and the state of its run; the agent,
\* the tools and the search client are the ones the module holds
Switch ==
    /\ parked.id # 0
    /\ parked' = Running
    /\ pc' = parked.pc
    /\ connected' = parked.connected
    /\ frames' = parked.frames
    /\ current_tool' = ResumedCurrentTool(parked.current_tool, current_tool)
    /\ message_content' = parked.message_content
    /\ events' = parked.events
    /\ emitted' = parked.emitted
    /\ handled' = parked.handled
    /\ loopState' = parked.loopState
    /\ messages' = parked.messages
    /\ llm' = parked.llm
    /\ calls' = parked.calls
    /\ finishOrder' = parked.finishOrder
    /\ modelInvocations' = parked.modelInvocations
    /\ toolInvocations' = parked.toolInvocations
    /\ fault' = parked.fault
    /\ framesAtDisconnect' = parked.framesAtDisconnect
    /\ stepsAfterDisconnect' = parked.stepsAfterDisconnect
    /\ mode' = parked.mode
    /\ response' = parked.response
    /\ providerFaults' = parked.providerFaults
    /\ UNCHANGED <<nextId, tavily_client, search, sdk, step>>

\* the inputs of the two requests: every reply asks for at most one tool,
\* a registered one; every fragment has a text; the provider answers; the
\* model may fail
ConcArgs ==
    {a \in CallArgs : Len(a) <= 1 /\ \A j \in 1..Len(a) : a[j].name \in TOOLS}

ConcProvider ==
    ProviderOk(<<[title |-> "T1", url |-> "U1", content |-> "C1"]>>)

ConcNext ==
    \/ Accept
    \/ Switch
    \/ GenStart
    \/ AgentStart
    \/ \E f \in Fragments(FragsProduced + 1) \ {NoText} : AgentChunk(f)
    \/ \E args \in ConcArgs : AgentReturn(args)
    \/ AgentFault(<<"timeout">>)
    \/ \E j \in 1..Len(calls) : ToolStart(j)
    \/ \E j \in 1..Len(calls) : ToolEnd(j, ConcProvider)
    \/ ToolsReturn
    \/ HandleEvent
    \/ GenComplete
    \/ GenFault

ConcSpec == Init /\ [][ConcNext]_vars

----------------------------------------------------------------------------
(* Properties *)

Last(q) == q[Len(q)]

IsAssistant(m) == m.role = "assistant"

IsChunkFrame(fr) == fr.event = "message"
IsToolStartFrame(fr) == fr.event = "tool_start"
IsToolEndFrame(fr) == fr.event = "tool_end"
IsProcessing(fr) == fr.event = "state_update" /\ fr.content = <<"processing">>
IsCompleted(fr) == fr.event = "state_update" /\ fr.content = <<"completed">>
IsError(fr) == fr.event = "error"

Count(q, Test(_)) == Len(SelectSeq(q, Test))

\* the contents of the frames of q, concatenated in order
RECURSIVE Contents(_)
Contents(q) == IF q = <<>> THEN <<>> ELSE Head(q).content \o Contents(Tail(q))

\* number of assistant messages among the first i messages
AssistantsUpTo(i) ==
    Cardinality({n \in 1..i : IsAssistant(messages[n])})

\* the result of tool call tc: what its invocation returned, or ToolNode's
\* answer when no tool has its name
ResultOf(tc) ==
    IF tc.name \in TOOLS
    THEN LET n == CHOOSE n \in 1..Len(emitted) :
                     emitted[n].event = "on_tool_end" /\ emitted[n].run = tc.id
         IN emitted[n].output
    ELSE InvalidToolText(tc.name)

\* the k calls of assistant message i are answered by the k messages that
\* follow it, and by no more
Answered(i) ==
    LET tcs == messages[i].tool_calls
        k == Len(tcs)
    IN /\ Len(messages) >= i + k
       /\ \A j \in 1..k :
            /\ messages[i + j].role = "tool"
            /\ messages[i + j].tool_call_id = tcs[j].id
            /\ messages[i + j].content = ResultOf(tcs[j])
       /\ Len(messages) > i + k => messages[i + k + 1].role # "tool"

\* C1: once the model invocation that follows an assistant message with
\* k >= 1 tool calls has begun, the k messages after that assistant message
\* are tool-role results, one per call, each with the id (and the result) of
\* its own call, whatever the order in which the calls ended.
C1_ToolResultsBeforeNextModelCall ==
    \A i \in 1..Len(messages) :
        ( /\ IsAssistant(messages[i])
          /\ messages[i].tool_calls # <<>>
          /\ AssistantsUpTo(i) < modelInvocations )
        => Answered(i)

\* the second model invocation is running after two calls that ended in
\* the reverse of their call order
C1_Witness ==
    /\ llm.inflight
    /\ modelInvocations = 2
    /\ Len(messages) = 4
    /\ Len(messages[2].tool_calls) = 2
    /\ finishOrder = <<messages[2].tool_calls[2].id,
                       messages[2].tool_calls[1].id>>

\* C2: when the first reply of the model has no tool call, the loop is in
\* DONE with exactly one model invocation and no tool invocation, and the
\* conversation is the input followed by that reply.
C2_NoToolCallsOneInvocation ==
    ( /\ Len(messages) >= 2
      /\ IsAssistant(messages[2])
      /\ messages[2].tool_calls = <<>> )
    => /\ loopState = "DONE"
       /\ modelInvocations = 1
       /\ toolInvocations = 0
       /\ ~llm.inflight
       /\ Len(messages) = 2

C2_Witness ==
    /\ Len(messages) = 2
    /\ IsAssistant(messages[2])
    /\ messages[2].tool_calls = <<>>
    /\ messages[2].content # NoText
    /\ loopState = "DONE"
    /\ connected

\* C3: the first frame is the one state_update "processing", yielded before
\* any model or tool step; a state_update "completed" is yielded only as
\* the last frame and only after the loop reached DONE; a run that ends
\* without fault and without disconnect ends with it.
C3_ProcessingFirstCompletedLast ==
    /\ (mode # "chat" /\ frames = <<>>) =>
         modelInvocations = 0 /\ toolInvocations = 0 /\ emitted = <<>>
    /\ \A i \in 1..Len(frames) :
         /\ IsProcessing(frames[i]) <=> i = 1
         /\ IsCompleted(frames[i]) =>
              i = Len(frames) /\ loopState = "DONE" /\ events = <<>>
    /\ pc = "done" => IsCompleted(Last(frames))
    /\ (mode = "stream" /\ connected /\ loopState = "DONE"
            /\ pc # "streaming") => pc = "done"

C3_Witness ==
    /\ pc = "done"
    /\ Count(frames, IsChunkFrame) >= 1
    /\ Count(frames, IsToolStartFrame) >= 1
    /\ Count(frames, IsToolEndFrame) >= 1

\* C4: an error frame is yielded only for a fault of the loop, as the last
\* frame, with the fault's message as content; a run ended by a fault ends
\* with exactly one error frame and holds no state_update "completed".
C4_FaultYieldsOneFinalError ==
    /\ \A i \in 1..Len(frames) :
         IsError(frames[i]) =>
            /\ i = Len(frames)
            /\ loopState = "FAULT"
            /\ frames[i].content = fault
    /\ pc = "failed" =>
         /\ IsError(Last(frames))
         /\ Count(frames, IsError) = 1
    /\ (mode = "stream" /\ loopState = "FAULT") =>
         /\ Count(frames, IsCompleted) = 0
         /\ pc \in {"streaming", "failed", "cancelled"}
         /\ (connected /\ pc # "streaming") => pc = "failed"

\* the fault came after a fragment and a tool round had been delivered
C4_Witness ==
    /\ pc = "failed"
    /\ Count(frames, IsChunkFrame) >= 1
    /\ Count(frames, IsToolEndFrame) >= 1
    /\ Last(frames).content = <<"rate limit">>

\* the texts of the assistant messages of q, concatenated in order
RECURSIVE AssistantText(_)
AssistantText(q) ==
    IF q = <<>> THEN <<>>
    ELSE (IF IsAssistant(Head(q)) THEN Head(q).content ELSE <<>>)
         \o AssistantText(Tail(q))

\* C5 as stated: in a run that reached DONE and was delivered to its end,
\* the contents of the message frames, concatenated, are the text of the
\* last message of the conversation.
C5_ChunksEqualFinalMessage ==
    pc = "done" =>
        Contents(SelectSeq(frames, IsChunkFrame)) = Last(messages).content

\* C5 amended: the contents of the message frames, concatenated, are the
\* texts of all assistant messages of the run, concatenated in order.
C5_ChunksEqualAllAssistantText ==
    pc = "done" =>
        Contents(SelectSeq(frames, IsChunkFrame)) = AssistantText(messages)

\* a run with text both in a tool-requesting reply and in the final reply
C5_Witness ==
    /\ pc = "done"
    /\ Len(messages) >= 4
    /\ messages[2].content # NoText
    /\ Last(messages).content # NoText
    /\ messages[2].content # Last(messages).content

\* the internal events consumed so far, in the order of their production
Consumed == SubSeq(emitted, 1, handled)

IsToolStartEvent(e) == e.event = "on_tool_start"
IsToolEndEvent(e) == e.event = "on_tool_end"

\* the call with run id r had a tool_start frame delivered
HadToolStart(r) ==
    \E n \in 1..handled : IsToolStartEvent(emitted[n]) /\ emitted[n].run = r

\* C6 as stated: the k-th tool_end frame carries the name of the tool of
\* the k-th tool invocation that ended, and is never "unknown" when that
\* call had a tool_start frame.
C6_ToolEndNamesEndedTool ==
    LET ends == SelectSeq(Consumed, IsToolEndEvent)
        fs == SelectSeq(frames, IsToolEndFrame)
    IN /\ Len(fs) = Len(ends)
       /\ \A k \in 1..Len(fs) :
            /\ fs[k].content = <<ends[k].name>>
            /\ HadToolStart(ends[k].run) => fs[k].content # <<Unknown>>

\* the calls of the assistant messages that name a tool of TOOLS, as
\* pairs <<message, call>>
ToolCallsInvoked ==
    {c \in (1..Len(messages)) \X (1..MaxToolCalls) :
        /\ c[2] <= Len(messages[c[1]].tool_calls)
        /\ messages[c[1]].tool_calls[c[2]].name \in TOOLS}

\* number of tool calls requested by the assistant messages that name a
\* tool of TOOLS
ToolCallsRequested == Cardinality(ToolCallsInvoked)

\* the ids of those calls
InvokedIds == {messages[c[1]].tool_calls[c[2]].id : c \in ToolCallsInvoked}

Observable(e) ==
    \/ e.event = "on_chat_model_stream" /\ e.chunk # NoText
    \/ e.event = "on_tool_start"
    \/ e.event = "on_tool_end"

IsStepFrame(fr) ==
    IsChunkFrame(fr) \/ IsToolStartFrame(fr) \/ IsToolEndFrame(fr)

\* frame fr is the translation of step e
TranslationOf(fr, e) ==
    \/ /\ e.event = "on_chat_model_stream"
       /\ IsChunkFrame(fr)
       /\ fr.content = e.chunk
    \/ /\ e.event = "on_tool_start"
       /\ IsToolStartFrame(fr)
       /\ fr.metadata.value = <<e.input>>
    \/ /\ e.event = "on_tool_end"
       /\ IsToolEndFrame(fr)
       /\ fr.metadata.value = e.output

\* C8: the message, tool_start and tool_end frames delivered are, one for
\* one and in the same order, the translations of the observable loop steps
\* consumed so far, taken in the order in which the steps occurred.
C8_FramesFollowStepOrder ==
    LET steps == SelectSeq(Consumed, Observable)
        fs == SelectSeq(frames, IsStepFrame)
    IN /\ Len(fs) = Len(steps)
       /\ \A k \in 1..Len(fs) : TranslationOf(fs[k], steps[k])

\* three steps are delivered while two more wait
C8_Witness ==
    /\ Count(frames, IsStepFrame) >= 3
    /\ Len(events) = 2
    /\ Observable(events[1]) /\ Observable(events[2])
    /\ events[1] # events[2]

\* C9: once the client has disconnected, no frame is yielded any more.
C9_NoFrameAfterDisconnect ==
    ~connected => Len(frames) = framesAtDisconnect

\* the client left mid-stream and a loop step still ran afterwards
C9_Witness ==
    /\ ~connected
    /\ framesAtDisconnect >= 2
    /\ stepsAfterDisconnect >= 1

\* C10 as stated: once the client has disconnected, no model or tool call
\* of the conversation is in flight and no step of the loop executes.
C10_NoStepAfterDisconnect ==
    ~connected =>
        /\ ~llm.inflight
        /\ \A j \in 1..Len(calls) : calls[j].status # "inflight"
        /\ stepsAfterDisconnect = 0

IsFragmentEvent(e) == e.event = "on_chat_model_stream"
IsTextFragmentEvent(e) == IsFragmentEvent(e) /\ e.chunk # NoText

\* C11 as stated: every frame is named state_update, message_chunk,
\* tool_start, tool_end or error, its body's type is that name, and the
\* fragments consumed are, one for one, the contents of the message_chunk
\* frames.
C11_FramesNamedMessageChunk ==
    /\ \A i \in 1..Len(frames) :
         /\ frames[i].event \in {"state_update", "message_chunk",
                                 "tool_start", "tool_end", "error"}
         /\ frames[i].type = frames[i].event
    /\ LET frags == SelectSeq(Consumed, IsFragmentEvent)
           IsMessageChunk(fr) == fr.event = "message_chunk"
           fs == SelectSeq(frames, IsMessageChunk)
       IN /\ Len(fs) = Len(frags)
          /\ \A k \in 1..Len(fs) : fs[k].content = frags[k].chunk

\* C11 amended: every frame is named state_update, message, tool_start,
\* tool_end or error, its body's type is that name, and the non-empty
\* fragments consumed are, one for one and in order, the contents of the
\* frames named message (a fragment, never the cumulative text).
C11_FramesNamedMessage ==
    /\ \A i \in 1..Len(frames) :
         /\ frames[i].event \in {"state_update", "message", "tool_start",
                                 "tool_end", "error"}
         /\ frames[i].type = frames[i].event
    /\ LET frags == SelectSeq(Consumed, IsTextFragmentEvent)
           fs == SelectSeq(frames, IsChunkFrame)
       IN /\ Len(fs) = Len(frags)
          /\ \A k \in 1..Len(fs) : fs[k].content = frags[k].chunk

\* two fragments with text were delivered, the second differing from
\* the text so far
C11_Witness ==
    LET fs == SelectSeq(frames, IsChunkFrame)
    IN /\ Len(fs) = 2
       /\ fs[2].content # fs[1].content \o fs[2].content
       /\ fs[1].content # fs[2].content

Contains(text, token) == \E k \in 1..Len(text) : text[k] = token

\* C12: web_search invoked without a configured credential returns a text
\* containing "Error" and "not configured", whatever the query; it raises
\* nothing and does not call the provider.
C12_NotConfiguredReturnsError ==
    (search.phase = "returned" /\ tavily_client = None) =>
        /\ ~search.result.raised
        /\ Contains(search.result.text, "Error")
        /\ Contains(search.result.text, "not configured")
        /\ search.result.provider_calls = 0

\* invoked without credential, with a provider that would have had hits
C12_Witness ==
    /\ search.phase = "returned"
    /\ tavily_client = None
    /\ search.query = "q2"
    /\ Len(search.provider.hits) >= 1

\* C13: when the provider call raises, web_search returns the text
\* "Error performing web search: " followed by the fault's message; nothing
\* leaves the adapter and the provider was called exactly once.
C13_ProviderFaultReturnsError ==
    (search.phase = "returned" /\ tavily_client # None
        /\ search.provider.raises) =>
        /\ ~search.result.raised
        /\ search.result.text =
             <<"Error", " performing web search: ">> \o search.provider.msg
        /\ search.result.provider_calls = 1

C13_Witness ==
    /\ search.phase = "returned"
    /\ tavily_client # None
    /\ search.provider.raises
    /\ search.provider.msg = <<"401 unauthorized">>

\* the k-th result block of a text returned by web_search: the separator
\* of the join and the eleven tokens of the entry
EntryOf(text, k) == SubSeq(text, 3 + 12 * (k - 1) + 1, 3 + 12 * k)

\* C18: on a successful provider call web_search returns a first line
\* naming the query, followed by the results the provider returned,
\* numbered 1, 2, ... in the provider's order, each with its title, URL
\* and snippet, and never more than TAVILY_MAX_RESULTS of them (without any
\* result the text is the one line "No results found for query: <query>").
C18_ResultsFormatted ==
    (search.phase = "returned" /\ tavily_client # None
        /\ ~search.provider.raises) =>
        LET text == search.result.text
            hits == search.provider.hits
            n == (Len(text) - 3) \div 12
        IN /\ ~search.result.raised
           /\ search.result.provider_calls = 1
           /\ IF hits = <<>>
              THEN text = <<"No results found for query: ", search.query>>
              ELSE /\ SubSeq(text, 1, 2) =
                        <<"Search results for: ", search.query>>
                   /\ Len(text) = 3 + 12 * n
                   /\ n <= TAVILY_MAX_RESULTS
                   /\ n = Min(Len(hits), TAVILY_MAX_RESULTS)
                   /\ \A k \in 1..n :
                        LET e == EntryOf(text, k)
                        IN /\ e[3] = Numbers[k]
                           /\ e[5] = Get(hits[k].title, "No title")
                           /\ e[7] = "   URL: "
                           /\ e[8] = Get(hits[k].url, "")
                           /\ e[11] = Get(hits[k].content,
                                          "No content available")

\* the provider had more hits than the configured maximum, two of them
\* different
C18_Witness ==
    /\ search.phase = "returned"
    /\ tavily_client # None
    /\ ~search.provider.raises
    /\ Len(search.provider.hits) > TAVILY_MAX_RESULTS
    /\ search.provider.hits[1] # search.provider.hits[2]

\* the tools step of call id is over
RoundOver(id) == \A j \in 1..Len(calls) : calls[j].id # id

ToolMessagesOf(id) ==
    {i \in 1..Len(messages) :
        messages[i].role = "tool" /\ messages[i].tool_call_id = id}

\* C14: a tool call whose provider call failed is answered, once its tools
\* step is over, by one tool-role message with its id and the error text;
\* after the tool results are appended the loop awaits the model again; no
\* fault of the loop, error frame or error response stems from the
\* provider's fault.
C14_ToolFailureAbsorbed ==
    /\ \A pf \in providerFaults :
         /\ RoundOver(pf.id) => Cardinality(ToolMessagesOf(pf.id)) = 1
         /\ \A i \in ToolMessagesOf(pf.id) :
              messages[i].content =
                  <<"Error", " performing web search: ">> \o pf.msg
    /\ (LoopRunning /\ messages[Len(messages)].role = "tool"
            /\ modelInvocations = AssistantsUpTo(Len(messages))) =>
         loopState = "AWAITING_MODEL"
    /\ loopState = "FAULT" => fault \in FaultMsgs
    /\ \A i \in 1..Len(frames) :
         IsError(frames[i]) => frames[i].content \in FaultMsgs
    /\ response.type = "error" => response.content \in FaultMsgs

\* after a failed provider call the model was invoked again and the run
\* was completed
C14_Witness ==
    /\ providerFaults # {}
    /\ modelInvocations >= 2
    /\ pc = "done"
    /\ \E pf \in providerFaults : ToolMessagesOf(pf.id) # {}

\* C15: when a model invocation fails during /api/chat, the failed
\* invocation is the last one of the request, and the response, once
\* given, has type "error" and the fault's message as content; it never has
\* type "message".
C15_ChatModelFaultErrorResponse ==
    /\ (mode = "chat" /\ loopState = "FAULT") =>
         /\ ~llm.inflight
         /\ modelInvocations = AssistantsUpTo(Len(messages)) + 1
         /\ response.type # "message"
         /\ pc = "responded" => response = [type |-> "error", content |-> fault]
    /\ response.type = "error" =>
         mode = "chat" /\ loopState = "FAULT" /\ pc = "responded"

\* the second model invocation of a chat request failed
C15_Witness ==
    /\ response.type = "error"
    /\ response.content = <<"rate limit">>
    /\ modelInvocations = 2
    /\ Len(messages) >= 3

\* C16: /api/chat answers a loop that reached DONE with one response of
\* type "message" whose content is the content of the last message of the
\* conversation, the final assistant reply; it answers only after DONE.
C16_ChatReturnsFinalAnswer ==
    /\ response.type = "message" =>
         /\ mode = "chat"
         /\ loopState = "DONE"
         /\ pc = "responded"
         /\ response.content = messages[Len(messages)].content
         /\ IsAssistant(messages[Len(messages)])
         /\ messages[Len(messages)].tool_calls = <<>>
    /\ (mode = "chat" /\ loopState = "DONE" /\ pc = "responded") =>
         response.type = "message"
    /\ (mode = "chat" /\ pc = "responded") => response.type # "none"
    /\ (mode = "chat" /\ pc # "responded") => response.type = "none"

\* answered after a tool round, with a final text that differs from the
\* text of the first reply
C16_Witness ==
    /\ response.type = "message"
    /\ Len(messages) >= 4
    /\ response.content # NoText
    /\ messages[2].content # NoText
    /\ messages[2].content # response.content

\* some assistant message holds a call to a tool that is not registered
UnknownToolRequested ==
    \E i \in 1..Len(messages) :
        \E j \in 1..Len(messages[i].tool_calls) :
            messages[i].tool_calls[j].name \notin TOOLS

\* C17 as stated: a turn whose model requested a tool that is not
\* registered does not end normally: no state_update "completed" on
\* /api/stream and no response of type "message" on /api/chat.
C17_UnknownToolFailsTurn ==
    UnknownToolRequested =>
        /\ pc # "done"
        /\ Count(frames, IsCompleted) = 0
        /\ response.type # "message"

\* C19: every tool-role message carries the id of a tool call of an
\* assistant message that stands earlier in the conversation.
C19_ToolMessageRefersToEarlierCall ==
    \A i \in 1..Len(messages) :
        messages[i].role = "tool" =>
            \E a \in 1..(i - 1) :
                /\ IsAssistant(messages[a])
                /\ \E j \in 1..Len(messages[a].tool_calls) :
                     messages[a].tool_calls[j].id = messages[i].tool_call_id

\* tool results of two rounds are in the conversation
C19_Witness ==
    /\ Len(messages) >= 5
    /\ messages[3].role = "tool"
    /\ messages[5].role = "tool"
    /\ IsAssistant(messages[4])

\* C20: the full_response of a state_update "completed" is the
\* concatenation, in order, of the contents of the message frames delivered
\* before it, and is empty when there is none.
C20_FullResponseIsChunkText ==
    \A i \in 1..Len(frames) :
        IsCompleted(frames[i]) =>
            /\ frames[i].metadata.key = "full_response"
            /\ frames[i].metadata.value =
                 Contents(SelectSeq(SubSeq(frames, 1, i - 1), IsChunkFrame))
            /\ Count(SubSeq(frames, 1, i - 1), IsChunkFrame) = 0 =>
                 frames[i].metadata.value = NoText

\* completed after two fragments with text, delivered around a tool round
C20_Witness ==
    /\ pc = "done"
    /\ Count(frames, IsChunkFrame) = 2
    /\ Count(frames, IsToolEndFrame) >= 1
    /\ Len(frames[Len(frames)].metadata.value) = 2

\* the two requests, the one taking its steps and the one beside it
Requests == IF parked.id = 0 THEN {Running} ELSE {Running, parked}

\* event_generator run on the internal events evs alone, from fresh locals:
\* the frames it yields and the final values of its locals
RECURSIVE RunAlone(_, _, _)
RunAlone(evs, ct, mc) ==
    IF evs = <<>> THEN [out |-> <<>>, ct |-> ct, mc |-> mc]
    ELSE LET r == HandleBody(Head(evs), ct, mc)
             rest == RunAlone(Tail(evs), r.ct, r.mc)
         IN [out |-> r.out \o rest.out, ct |-> rest.ct, mc |-> rest.mc]

\* the frames request v would have received so far, had it been served
\* alone, from the internal events of its own run that it has consumed
FramesAlone(v) ==
    LET r == RunAlone(SubSeq(v.emitted, 1, v.handled), None, <<>>)
    IN (IF v.pc = "start" THEN <<>> ELSE <<ProcessingFrame>>)
       \o r.out
       \o (IF v.pc = "done" THEN <<CompletedFrame(r.mc)>>
           ELSE IF v.pc = "failed" THEN <<ErrorFrame(v.fault)>>
           ELSE <<>>)

\* the ids of the tool calls requested in the conversation of request v
CallIdsOf(v) ==
    UNION {{v.messages[i].tool_calls[j].id :
               j \in 1..Len(v.messages[i].tool_calls)} :
           i \in 1..Len(v.messages)}

\* the question of request v
QuestionOf(v) == IF v.id = 1 THEN <<"question">> ELSE <<"question 2">>

\* the texts of the fragments among the internal events evs, in order
RECURSIVE ChunkText(_)
ChunkText(evs) ==
    IF evs = <<>> THEN <<>>
    ELSE (IF Head(evs).event = "on_chat_model_stream"
          THEN Head(evs).chunk ELSE <<>>)
         \o ChunkText(Tail(evs))

\* request v is served from its own state only
ServedAlone(v) ==
    /\ v.frames = FramesAlone(v)
    /\ v.messages[1] = Message("user", QuestionOf(v), <<>>, 0)
    /\ \A i \in 2..Len(v.messages) : v.messages[i].role # "user"
    /\ \A i \in 1..Len(v.messages) :
         v.messages[i].role = "tool" =>
            v.messages[i].tool_call_id \in CallIdsOf(v)
    /\ \A n \in 1..Len(v.emitted) :
         v.emitted[n].event \in {"on_tool_start", "on_tool_end"} =>
            v.emitted[n].run \in CallIdsOf(v)
    /\ v.events = SubSeq(v.emitted, v.handled + 1, Len(v.emitted))
    /\ v.loopState # "FAULT" =>
         ChunkText(v.emitted) = AssistantText(v.messages) \o v.llm.text

\* C21: of two /api/stream requests served side by side, whatever the
\* interleaving of their steps, each has received the frames it would have
\* received alone (tool_end names and full_response included), its
\* conversation holds its own question, its own replies and the results of
\* its own tool calls, and nothing of the other request or of an earlier one.
C21_ConversationsIsolated ==
    /\ \A v \in Requests : ServedAlone(v)
    /\ \A v, w \in Requests : v.id # w.id => CallIdsOf(v) \cap CallIdsOf(w) = {}

\* both requests are complete, each after a tool round and a fragment, and
\* the first was still being served when the second produced its fragment
C21_Witness ==
    \E a, b \in Requests :
        /\ a.id = 1 /\ b.id = 2
        /\ a.pc = "done" /\ b.pc = "done"
        /\ 1 \in CallIdsOf(a) /\ 2 \in CallIdsOf(b)
        /\ Last(a.frames).metadata.value = <<FragmentTexts[2]>>
        /\ Last(b.frames).metadata.value = <<FragmentTexts[1]>>
        /\ \E k \in 1..Len(a.frames) :
             IsToolEndFrame(a.frames[k]) /\ a.frames[k].content = <<"web_search">>
        /\ \E k \in 1..Len(b.frames) :
             IsToolEndFrame(b.frames[k]) /\ b.frames[k].content = <<"web_search">>

MaxRounds == (RecursionLimit - 1) \div 2

ServerFramesRead == [k \in 1..Len(frames) |-> ParseSse(SseEncode(frames[k]))]

\* the frames a client reads from server_sdk.py's response
SdkFramesRead == [k \in 1..Len(sdk.wire) |-> ParseSse(sdk.wire[k])]

\* C23: fed the same internal events, with the same fault at the same
\* position, the event generators of server.py and server_sdk.py have emitted
\* the same frames, equal in event name, type, content and metadata.
C23_VariantsEmitSameFrames == SdkFramesRead = ServerFramesRead

\* both variants have reported a tool_end for a tool that no tool_start
\* announced, a fragment, and then the fault
C23_Witness ==
    /\ pc = "failed"
    /\ Len(sdk.wire) = 4
    /\ \E k \in 1..Len(frames) :
         IsToolEndFrame(frames[k]) /\ frames[k].content = <<Unknown>>
    /\ Count(frames, IsChunkFrame) = 1
    /\ IsError(Last(ServerFramesRead))

====
